---- MODULE Spec2Model ----
(***************************************************************************)
(* Model of src/src/deployment.js: class Deployment, the lifecycle of one  *)
(* GitHub Pages deployment (create, check = poll until terminal, cancel).  *)
(*                                                                         *)
(* The three async methods are processes that advance from one await to    *)
(* the next.  Everything the JavaScript runs between two awaits is one     *)
(* atomic action.  The remote calls (getSignedArtifactUrl,                 *)
(* createPagesDeployment, getPagesDeploymentStatus, cancelPagesDeployment) *)
(* are the environment: each either returns a value drawn from a small     *)
(* set or throws.  (A call that cannot be resolved at run time throws a    *)
(* ReferenceError inside the same try block and is covered by the throw    *)
(* outcome.)                                                               *)
(*                                                                         *)
(* create() and check() are sequential with respect to each other, as in   *)
(* the action's entry point (check is awaited after create), but each may  *)
(* be called again after it has settled; the locals and reports of a       *)
(* settled call are forgotten when the other method is called.  cancel()   *)
(* is also what the                                                        *)
(* process's signal handler calls, so an external cancel() may start at    *)
(* any time, in particular while check() is suspended.                     *)
(***************************************************************************)
EXTENDS Integers, Sequences, FiniteSets, TLC

\* ------------------------------------------------------------------ bounds
\* Largest value of the wall clock the model follows.
MaxNow == 2
\* A check() run may issue at most this many status queries in the model.
MaxQueries == 4
\* No new check()/cancel() invocation starts once this many remote cancel
\* calls were issued for the current record.
MaxCancelCalls == 2
\* Error budget of the long run (SpecLong): large enough for the backoff
\* delay to saturate and then be hit by further errors.
BigBudget == 17

\* ------------------------------------------------------- program constants
HttpOk == 200
\* 1000 * 15, the threshold of the backoff growth
BackoffThreshold == 15000

\* ------------------------------------------------------------ input sets
\* core.getInput('timeout'), 'reporting_interval', 'error_count' as numbers
Timeouts == {0, 2}
ReportingIntervals == {0, 5}
MaxErrorCounts == {0, 1, 3}

\* this.buildVersion (context.buildVersion), a string = sequence of characters
BuildVersion == <<"v">>

\* status_url values of a creation response; NoUrl = the field is absent
NoUrl == <<"<absent>">>
StatusUrls == { NoUrl,
                <<>>,
                <<"u", "/", "d">>,
                <<"u", "/">> }

\* res.data.status values of a status response: the strings the code names,
\* and "in_progress" for every other string of the service's vocabulary
\* (strings that name a member of Object.prototype are outside it).
Statuses == { "succeed", "deployment_failed", "deployment_content_failed",
              "unknown_status", "not_found", "deployment_attempt_error",
              "in_progress" }
\* 503 stands for every HTTP status other than 200
HttpCodes == { HttpOk, 503 }
Responses == [status : HttpCodes, data_status : Statuses]
NoRes == [status |-> 0, data_status |-> "<none>"]

VARIABLES
    deploymentInfo,          \* <<>> = null, or <<[status_url, id, pending]>>
    cpc,                     \* create(): "idle","sign","create","returned","raised"
    createCalls,             \* createPagesDeployment calls of the current create()
    pc,                      \* check(): "idle","sleep","query","cancel","done"
    deploymentId,            \* check(): const deploymentId
    timeout,                 \* check(): const timeout
    reportingInterval,       \* check(): const reportingInterval
    maxErrorCount,           \* check(): const maxErrorCount
    startTime,               \* check(): let startTime
    errorCount,              \* check(): let errorCount
    errorReportingInterval,  \* check(): let errorReportingInterval
    res,                     \* check(): the last response of getPagesDeploymentStatus
    sleepArg,                \* delay handed to the last setTimeout
    queries,                 \* getPagesDeploymentStatus calls of the current check()
    outcome,                 \* how the current check() left its loop
    statusOutput,            \* core.setOutput('status', ...) of the current check()
    failed,                  \* core.setFailed reports of the current check()
    checkCancelCalls,        \* cancelPagesDeployment calls issued by the current check()
    xpc,                     \* external cancel(): "idle", "await" (remote call in
                             \* flight), "noop" (returned without a call),
                             \* "returned" (call succeeded), "reported" (call
                             \* failed, core.setFailed, returned)
    cancelCalls,             \* cancelPagesDeployment calls since the record was created
    now                      \* Date.now()

vars == << deploymentInfo, cpc, createCalls, pc, deploymentId, timeout,
           reportingInterval, maxErrorCount, startTime, errorCount,
           errorReportingInterval, res, sleepArg, queries, outcome,
           statusOutput, failed, checkCancelCalls, xpc, cancelCalls, now >>

createVars == << cpc, createCalls >>
checkVars == << pc, deploymentId, timeout, reportingInterval, maxErrorCount,
                startTime, errorCount, errorReportingInterval, res, sleepArg,
                queries, outcome, statusOutput, failed, checkCancelCalls >>
extVars == << xpc >>

\* ------------------------------------------------------------ pure helpers
Null == <<>>

\* this.deploymentInfo?.pending as a condition
Pending == deploymentInfo # Null /\ deploymentInfo[1].pending

\* The assignment written as a toggle: pending = !pending.
TogglePending ==
    IF deploymentInfo # Null
    THEN << [deploymentInfo[1] EXCEPT !.pending = ~deploymentInfo[1].pending] >>
    ELSE deploymentInfo

\* if (this.deploymentInfo) { this.deploymentInfo.pending = false }
ClearPending ==
    IF deploymentInfo # Null
    THEN << [deploymentInfo[1] EXCEPT !.pending = FALSE] >>
    ELSE deploymentInfo

\* s.split('/').pop(): the characters after the last '/'
RECURSIVE LastSegment(_)
LastSegment(s) ==
    IF s = <<>> THEN <<>>
    ELSE IF s[Len(s)] = "/" THEN <<>>
    ELSE Append(LastSegment(SubSeq(s, 1, Len(s) - 1)), s[Len(s)])

\* The fallback written with ?? in place of ||: an empty last segment is kept.
DeriveIdNullish(status_url) ==
    IF status_url = NoUrl THEN BuildVersion
    ELSE LastSegment(status_url)

\* deployment?.['status_url']?.split('/')?.pop() || this.buildVersion
DeriveId(status_url) ==
    IF status_url = NoUrl THEN BuildVersion
    ELSE IF LastSegment(status_url) = <<>> THEN BuildVersion
    ELSE LastSegment(status_url)

\* this.deploymentInfo?.id || this.buildVersion
CurrentId ==
    IF deploymentInfo # Null /\ deploymentInfo[1].id # <<>>
    THEN deploymentInfo[1].id
    ELSE BuildVersion

\* !!errorStatus[s]: s is a key of errorStatus
IsErrorStatus(s) ==
    s \in { "unknown_status", "not_found", "deployment_attempt_error" }

\* res.status !== 200 || !!errorStatus[res.data.status]
IsError(r) == r.status # HttpOk \/ IsErrorStatus(r.data_status)

\* (x << 1) | 1.  The operand is below 15000 at the only call, so the
\* 32-bit wrap of << never applies; | 1 sets the lowest bit.
ShiftLeftOrOne(x) ==
    LET shifted == 2 * x
    IN  IF shifted % 2 = 0 THEN shifted + 1 ELSE shifted

\* The growth without the `< 1000 * 15` test.
NextBackoffNoCap(delay, r) ==
    IF IsError(r) THEN ShiftLeftOrOne(delay) ELSE 0

\* errorReportingInterval after a response that did not end the loop
NextBackoff(delay, r) ==
    IF IsError(r)
    THEN IF delay < BackoffThreshold THEN ShiftLeftOrOne(delay) ELSE delay
    ELSE 0

\* The count reset by a clean response, like the backoff delay.
NextErrorCountReset(count, r) == IF IsError(r) THEN count + 1 ELSE 0

\* errorCount after a response that did not end the loop
NextErrorCount(count, r) == IF IsError(r) THEN count + 1 ELSE count

\* The budget test with > in place of >=.
BudgetExhaustedStrict(count, max) == count > max

\* errorCount >= maxErrorCount
BudgetExhausted(count, max) == count >= max

\* The timeout test with > in place of >=.
TimedOutStrict(t, start, limit) == t - start > limit

\* Date.now() - startTime >= timeout
TimedOut(t, start, limit) == t - start >= limit

\* The timer set to the reporting interval alone.
SleepDelayNoBackoff(interval, backoff) == interval

\* setTimeout(resolve, reportingInterval + errorReportingInterval)
SleepDelay(interval, backoff) == interval + backoff

IsTerminal(s) ==
    s \in { "succeed", "deployment_failed", "deployment_content_failed" }

\* ------------------------------------------------------------------- Init
\* The state after the constructor: this.deploymentInfo = null, no method
\* has been called.
Init ==
    /\ deploymentInfo = Null
    /\ cpc = "idle"
    /\ createCalls = 0
    /\ pc = "idle"
    /\ deploymentId = BuildVersion
    /\ timeout = 0
    /\ reportingInterval = 0
    /\ maxErrorCount = 0
    /\ startTime = 0
    /\ errorCount = 0
    /\ errorReportingInterval = 0
    /\ res = NoRes
    /\ sleepArg = 0
    /\ queries = 0
    /\ outcome = "none"
    /\ statusOutput = "none"
    /\ failed = {}
    /\ checkCancelCalls = 0
    /\ xpc = "idle"
    /\ cancelCalls = 0
    /\ now = 0

\* The locals and reports of a check() that has returned are dropped.
CheckForgotten ==
    /\ pc' = "idle"
    /\ deploymentId' = BuildVersion
    /\ timeout' = 0
    /\ reportingInterval' = 0
    /\ maxErrorCount' = 0
    /\ startTime' = 0
    /\ errorCount' = 0
    /\ errorReportingInterval' = 0
    /\ res' = NoRes
    /\ sleepArg' = 0
    /\ queries' = 0
    /\ outcome' = "none"
    /\ statusOutput' = "none"
    /\ failed' = {}
    /\ checkCancelCalls' = 0

\* ---------------------------------------------------------------- create()
\* create(idToken) is called; it runs up to `await getSignedArtifactUrl(...)`.
CreateCall ==
    /\ cpc \in {"idle", "returned", "raised"}
    /\ pc \in {"idle", "done"}
    /\ cpc' = "sign"
    /\ createCalls' = 0
    /\ CheckForgotten
    /\ UNCHANGED << deploymentInfo, cancelCalls, now >>
    /\ UNCHANGED extVars

\* getSignedArtifactUrl resolves; createPagesDeployment is called and awaited.
SignReturn ==
    /\ cpc = "sign"
    /\ cpc' = "create"
    /\ createCalls' = createCalls + 1
    /\ UNCHANGED << deploymentInfo, cancelCalls, now >>
    /\ UNCHANGED checkVars
    /\ UNCHANGED extVars

\* getSignedArtifactUrl rejects: the catch block logs and re-throws.
SignThrow ==
    /\ cpc = "sign"
    /\ cpc' = "raised"
    /\ UNCHANGED << createCalls, deploymentInfo, cancelCalls, now >>
    /\ UNCHANGED checkVars
    /\ UNCHANGED extVars

\* createPagesDeployment resolves with a response carrying status_url.
CreateReturn(status_url) ==
    /\ cpc = "create"
    /\ deploymentInfo' = << [status_url |-> status_url,
                              id |-> DeriveId(status_url),
                              pending |-> TRUE] >>
    /\ cancelCalls' = 0
    /\ cpc' = "returned"
    /\ UNCHANGED << createCalls, now >>
    /\ UNCHANGED checkVars
    /\ UNCHANGED extVars

\* The catch block calling createPagesDeployment again instead of throwing.
CreateThrowRetries ==
    /\ cpc = "create"
    /\ cpc' = "create"
    /\ createCalls' = createCalls + 1
    /\ UNCHANGED << deploymentInfo, cancelCalls, now >>
    /\ UNCHANGED checkVars
    /\ UNCHANGED extVars

\* createPagesDeployment rejects: the catch block builds the message and
\* throws (with or without error.response).
CreateThrow ==
    /\ cpc = "create"
    /\ cpc' = "raised"
    /\ UNCHANGED << createCalls, deploymentInfo, cancelCalls, now >>
    /\ UNCHANGED checkVars
    /\ UNCHANGED extVars

\* ---------------------------------------------------------------- cancel()
\* The guard testing only that a record exists.
ShouldCancelIfCreated == deploymentInfo # Null

\* The guard of cancel(): the remote call is made iff this holds.
ShouldCancel == Pending

\* cancel() called from outside check() (the signal handler).
CancelCall ==
    /\ xpc # "await"
    /\ cancelCalls < MaxCancelCalls
    /\ IF ShouldCancel
       THEN /\ xpc' = "await"
            /\ cancelCalls' = cancelCalls + 1
       ELSE /\ xpc' = "noop"
            /\ cancelCalls' = cancelCalls
    /\ UNCHANGED << deploymentInfo, now >>
    /\ UNCHANGED createVars
    /\ UNCHANGED checkVars

\* cancelPagesDeployment resolves for the external cancel().
CancelReturn ==
    /\ xpc = "await"
    /\ deploymentInfo' = ClearPending
    /\ xpc' = "returned"
    /\ UNCHANGED << cancelCalls, now >>
    /\ UNCHANGED createVars
    /\ UNCHANGED checkVars

\* cancelPagesDeployment rejects for the external cancel(): reported, swallowed.
CancelThrow ==
    /\ xpc = "await"
    /\ xpc' = "reported"
    /\ UNCHANGED << deploymentInfo, cancelCalls, now >>
    /\ UNCHANGED createVars
    /\ UNCHANGED checkVars

\* ----------------------------------------------------------------- check()
\* check() is called: reads its inputs, initialises its locals and starts
\* the first setTimeout.
CheckCallWith(T, R, M) ==
    /\ pc \in {"idle", "done"}
    /\ cpc \in {"idle", "returned", "raised"}
    /\ cancelCalls < MaxCancelCalls
    /\ \E t \in T, r \in R, m \in M :
          /\ timeout' = t
          /\ reportingInterval' = r
          /\ maxErrorCount' = m
          /\ sleepArg' = SleepDelay(r, 0)
    /\ deploymentId' = CurrentId
    /\ startTime' = now
    /\ errorCount' = 0
    /\ errorReportingInterval' = 0
    /\ res' = NoRes
    /\ queries' = 0
    /\ outcome' = "none"
    /\ statusOutput' = "none"
    /\ failed' = {}
    /\ checkCancelCalls' = 0
    /\ pc' = "sleep"
    /\ cpc' = "idle"
    /\ createCalls' = 0
    /\ UNCHANGED << deploymentInfo, cancelCalls, now >>
    /\ UNCHANGED extVars

CheckCall == CheckCallWith(Timeouts, ReportingIntervals, MaxErrorCounts)

\* The timeout tested when the timer fires, before the query is made.
SleepDoneTestsTimeout(cap) ==
    /\ pc = "sleep"
    /\ queries < cap
    /\ IF TimedOut(now, startTime, timeout)
       THEN /\ failed' = failed \cup {"Timeout"}
            /\ outcome' = "TimedOut"
            /\ queries' = queries
            /\ IF ShouldCancel
               THEN /\ pc' = "cancel"
                    /\ checkCancelCalls' = checkCancelCalls + 1
                    /\ cancelCalls' = cancelCalls + 1
               ELSE /\ pc' = "done"
                    /\ checkCancelCalls' = checkCancelCalls
                    /\ cancelCalls' = cancelCalls
       ELSE /\ pc' = "query"
            /\ queries' = queries + 1
            /\ UNCHANGED << outcome, failed, checkCancelCalls, cancelCalls >>
    /\ UNCHANGED << deploymentId, timeout, reportingInterval, maxErrorCount,
                    startTime, errorCount, errorReportingInterval, res,
                    sleepArg, statusOutput >>
    /\ UNCHANGED << deploymentInfo, now >>
    /\ UNCHANGED createVars
    /\ UNCHANGED extVars

\* The timer fires; getPagesDeploymentStatus is called and awaited.
SleepDoneWith(cap) ==
    /\ pc = "sleep"
    /\ queries < cap
    /\ pc' = "query"
    /\ queries' = queries + 1
    /\ UNCHANGED << deploymentId, timeout, reportingInterval, maxErrorCount,
                    startTime, errorCount, errorReportingInterval, res,
                    sleepArg, outcome, statusOutput, failed, checkCancelCalls >>
    /\ UNCHANGED << deploymentInfo, cancelCalls, now >>
    /\ UNCHANGED createVars
    /\ UNCHANGED extVars

SleepDone == SleepDoneWith(MaxQueries)

\* The same step with the query counter pinned at its bound instead of
\* blocking: a run may poll any number of times.
SleepDoneSaturating ==
    /\ pc = "sleep"
    /\ pc' = "query"
    /\ queries' = IF queries < MaxQueries THEN queries + 1 ELSE queries
    /\ UNCHANGED << deploymentId, timeout, reportingInterval, maxErrorCount,
                    startTime, errorCount, errorReportingInterval, res,
                    sleepArg, outcome, statusOutput, failed, checkCancelCalls >>
    /\ UNCHANGED << deploymentInfo, cancelCalls, now >>
    /\ UNCHANGED createVars
    /\ UNCHANGED extVars

\* The catch block of check() cancelling the deployment like the budget and
\* timeout paths do.
QueryThrowCancels ==
    /\ pc = "query"
    /\ failed' = failed \cup {"QueryError"}
    /\ outcome' = "Aborted"
    /\ IF Pending
       THEN /\ pc' = "cancel"
            /\ checkCancelCalls' = checkCancelCalls + 1
            /\ cancelCalls' = cancelCalls + 1
       ELSE /\ pc' = "done"
            /\ checkCancelCalls' = checkCancelCalls
            /\ cancelCalls' = cancelCalls
    /\ UNCHANGED << deploymentId, timeout, reportingInterval, maxErrorCount,
                    startTime, errorCount, errorReportingInterval, res,
                    sleepArg, queries, statusOutput >>
    /\ UNCHANGED << deploymentInfo, now >>
    /\ UNCHANGED createVars
    /\ UNCHANGED extVars

\* The catch block of check() clearing pending as the terminal statuses do.
QueryThrowClearsPending ==
    /\ pc = "query"
    /\ failed' = failed \cup {"QueryError"}
    /\ outcome' = "Aborted"
    /\ pc' = "done"
    /\ deploymentInfo' = ClearPending
    /\ UNCHANGED << deploymentId, timeout, reportingInterval, maxErrorCount,
                    startTime, errorCount, errorReportingInterval, res,
                    sleepArg, queries, statusOutput, checkCancelCalls >>
    /\ UNCHANGED << cancelCalls, now >>
    /\ UNCHANGED createVars
    /\ UNCHANGED extVars

\* getPagesDeploymentStatus rejects (or the response has no data): the catch
\* block of check() reports the error; check() returns.
QueryThrow ==
    /\ pc = "query"
    /\ failed' = failed \cup {"QueryError"}
    /\ outcome' = "Aborted"
    /\ pc' = "done"
    /\ UNCHANGED << deploymentId, timeout, reportingInterval, maxErrorCount,
                    startTime, errorCount, errorReportingInterval, res,
                    sleepArg, queries, statusOutput, checkCancelCalls >>
    /\ UNCHANGED << deploymentInfo, cancelCalls, now >>
    /\ UNCHANGED createVars
    /\ UNCHANGED extVars

\* setFailed, then `await this.cancel(); return`: cancel() runs up to its
\* await (or returns at once when nothing is pending).
AbortAndCancel(report, out) ==
    /\ failed' = failed \cup {report}
    /\ outcome' = out
    /\ IF ShouldCancel
       THEN /\ pc' = "cancel"
            /\ checkCancelCalls' = checkCancelCalls + 1
            /\ cancelCalls' = cancelCalls + 1
       ELSE /\ pc' = "done"
            /\ checkCancelCalls' = checkCancelCalls
            /\ cancelCalls' = cancelCalls
    /\ UNCHANGED << deploymentInfo, statusOutput, sleepArg >>

\* Terminate with the status output written on every terminal branch.
TerminateOutputAlways(out) ==
    /\ outcome' = out
    /\ statusOutput' = "succeed"
    /\ failed' = IF out = "Succeeded" THEN failed ELSE failed \cup {out}
    /\ deploymentInfo' = ClearPending
    /\ pc' = "done"
    /\ UNCHANGED << errorCount, errorReportingInterval, sleepArg,
                    checkCancelCalls, cancelCalls >>

\* Terminate without the `pending = false` assignment.
TerminateKeepPending(out) ==
    /\ outcome' = out
    /\ statusOutput' = IF out = "Succeeded" THEN "succeed" ELSE statusOutput
    /\ failed' = IF out = "Succeeded" THEN failed ELSE failed \cup {out}
    /\ deploymentInfo' = deploymentInfo
    /\ pc' = "done"
    /\ UNCHANGED << errorCount, errorReportingInterval, sleepArg,
                    checkCancelCalls, cancelCalls >>

\* Terminate with the permanent failures counted against the error budget.
TerminateCounted(out) ==
    /\ outcome' = out
    /\ statusOutput' = IF out = "Succeeded" THEN "succeed" ELSE statusOutput
    /\ failed' = IF out = "Succeeded" THEN failed ELSE failed \cup {out}
    /\ deploymentInfo' = ClearPending
    /\ pc' = "done"
    /\ errorCount' = IF out = "Succeeded" THEN errorCount ELSE errorCount + 1
    /\ UNCHANGED << errorReportingInterval, sleepArg,
                    checkCancelCalls, cancelCalls >>

\* A terminal status: report, clear pending, break.
Terminate(out) ==
    /\ outcome' = out
    /\ statusOutput' = IF out = "Succeeded" THEN "succeed" ELSE statusOutput
    /\ failed' = IF out = "Succeeded" THEN failed ELSE failed \cup {out}
    /\ deploymentInfo' = ClearPending
    /\ pc' = "done"
    /\ UNCHANGED << errorCount, errorReportingInterval, sleepArg,
                    checkCancelCalls, cancelCalls >>

\* The loop body with the timeout test placed before the budget test.
QueryReturnTimeoutFirst(r) ==
    /\ pc = "query"
    /\ res' = r
    /\ IF r.data_status = "succeed" THEN Terminate("Succeeded")
       ELSE IF r.data_status = "deployment_failed" THEN Terminate("DeploymentFailed")
       ELSE IF r.data_status = "deployment_content_failed" THEN Terminate("ContentFailed")
       ELSE /\ errorCount' = NextErrorCount(errorCount, r)
            /\ errorReportingInterval' = NextBackoff(errorReportingInterval, r)
            /\ IF TimedOut(now, startTime, timeout)
               THEN AbortAndCancel("Timeout", "TimedOut")
               ELSE IF BudgetExhausted(errorCount', maxErrorCount)
               THEN AbortAndCancel("StatusCode", "ErrorBudgetExhausted")
               ELSE /\ pc' = "sleep"
                    /\ sleepArg' = SleepDelay(reportingInterval, errorReportingInterval')
                    /\ UNCHANGED << deploymentInfo, outcome, statusOutput,
                                    failed, checkCancelCalls, cancelCalls >>
    /\ UNCHANGED << deploymentId, timeout, reportingInterval, maxErrorCount,
                    startTime, queries, now >>
    /\ UNCHANGED createVars
    /\ UNCHANGED extVars

\* getPagesDeploymentStatus resolves with r: the rest of the loop body, up
\* to the next await (the next setTimeout, or the call made by cancel()).
\* The loop body without its timeout test.
QueryReturnNoTimeout(r) ==
    /\ pc = "query"
    /\ res' = r
    /\ IF r.data_status = "succeed" THEN Terminate("Succeeded")
       ELSE IF r.data_status = "deployment_failed" THEN Terminate("DeploymentFailed")
       ELSE IF r.data_status = "deployment_content_failed" THEN Terminate("ContentFailed")
       ELSE /\ errorCount' = NextErrorCount(errorCount, r)
            /\ errorReportingInterval' = NextBackoff(errorReportingInterval, r)
            /\ IF BudgetExhausted(errorCount', maxErrorCount)
               THEN AbortAndCancel("StatusCode", "ErrorBudgetExhausted")
               ELSE /\ pc' = "sleep"
                    /\ sleepArg' = SleepDelay(reportingInterval, errorReportingInterval')
                    /\ UNCHANGED << deploymentInfo, outcome, statusOutput,
                                    failed, checkCancelCalls, cancelCalls >>
    /\ UNCHANGED << deploymentId, timeout, reportingInterval, maxErrorCount,
                    startTime, queries, now >>
    /\ UNCHANGED createVars
    /\ UNCHANGED extVars

QueryReturn(r) ==
    /\ pc = "query"
    /\ res' = r
    /\ IF r.data_status = "succeed" THEN Terminate("Succeeded")
       ELSE IF r.data_status = "deployment_failed" THEN Terminate("DeploymentFailed")
       ELSE IF r.data_status = "deployment_content_failed" THEN Terminate("ContentFailed")
       ELSE /\ errorCount' = NextErrorCount(errorCount, r)
            /\ errorReportingInterval' = NextBackoff(errorReportingInterval, r)
            /\ IF BudgetExhausted(errorCount', maxErrorCount)
               THEN AbortAndCancel("StatusCode", "ErrorBudgetExhausted")
               ELSE IF TimedOut(now, startTime, timeout)
               THEN AbortAndCancel("Timeout", "TimedOut")
               ELSE /\ pc' = "sleep"
                    /\ sleepArg' = SleepDelay(reportingInterval, errorReportingInterval')
                    /\ UNCHANGED << deploymentInfo, outcome, statusOutput,
                                    failed, checkCancelCalls, cancelCalls >>
    /\ UNCHANGED << deploymentId, timeout, reportingInterval, maxErrorCount,
                    startTime, queries, now >>
    /\ UNCHANGED createVars
    /\ UNCHANGED extVars

\* cancelPagesDeployment resolves for the cancel() awaited by check().
CheckCancelReturn ==
    /\ pc = "cancel"
    /\ deploymentInfo' = ClearPending
    /\ pc' = "done"
    /\ UNCHANGED << deploymentId, timeout, reportingInterval, maxErrorCount,
                    startTime, errorCount, errorReportingInterval, res,
                    sleepArg, queries, outcome, statusOutput, failed,
                    checkCancelCalls >>
    /\ UNCHANGED << cancelCalls, now >>
    /\ UNCHANGED createVars
    /\ UNCHANGED extVars

\* The catch block of cancel() clearing pending as the success path does.
CheckCancelThrowClears ==
    /\ pc = "cancel"
    /\ failed' = failed \cup {"CancelError"}
    /\ pc' = "done"
    /\ deploymentInfo' = ClearPending
    /\ UNCHANGED << deploymentId, timeout, reportingInterval, maxErrorCount,
                    startTime, errorCount, errorReportingInterval, res,
                    sleepArg, queries, outcome, statusOutput,
                    checkCancelCalls >>
    /\ UNCHANGED << cancelCalls, now >>
    /\ UNCHANGED createVars
    /\ UNCHANGED extVars

\* cancelPagesDeployment rejects for the cancel() awaited by check():
\* cancel() reports and swallows the error, check() returns.
CheckCancelThrow ==
    /\ pc = "cancel"
    /\ failed' = failed \cup {"CancelError"}
    /\ pc' = "done"
    /\ UNCHANGED << deploymentId, timeout, reportingInterval, maxErrorCount,
                    startTime, errorCount, errorReportingInterval, res,
                    sleepArg, queries, outcome, statusOutput,
                    checkCancelCalls >>
    /\ UNCHANGED << deploymentInfo, cancelCalls, now >>
    /\ UNCHANGED createVars
    /\ UNCHANGED extVars

\* The wall clock advances while check() is suspended.
Tick ==
    /\ pc \in {"sleep", "query"}
    /\ now < MaxNow
    /\ now' = now + 1
    /\ UNCHANGED << deploymentInfo, cancelCalls >>
    /\ UNCHANGED createVars
    /\ UNCHANGED checkVars
    /\ UNCHANGED extVars

\* ---------------------------------------------------------- specifications
Next ==
    \/ CreateCall
    \/ SignReturn
    \/ SignThrow
    \/ \E u \in StatusUrls : CreateReturn(u)
    \/ CreateThrow
    \/ CancelCall
    \/ CancelReturn
    \/ CancelThrow
    \/ CheckCall
    \/ SleepDone
    \/ QueryThrow
    \/ \E r \in Responses : QueryReturn(r)
    \/ CheckCancelReturn
    \/ CheckCancelThrow
    \/ Tick

Spec == Init /\ [][Next]_vars

\* One check() run of a fresh instance with a large error budget and a
\* timeout the clock does not reach: the long error runs of the backoff.
CheckCallLong == CheckCallWith({MaxNow + 1}, {0}, {BigBudget})

SleepDoneLong == SleepDoneWith(BigBudget + 1)

NextLong ==
    \/ (pc = "idle" /\ CheckCallLong)
    \/ SleepDoneLong
    \/ QueryThrow
    \/ \E r \in Responses : QueryReturn(r)
    \/ Tick

SpecLong == Init /\ [][NextLong]_vars

\* create() and check() runs whose timeout the bounded clock can reach, with
\* no bound on the number of polls; every timer and every awaited call of
\* check() settles, and the clock advances while check() is suspended.
CheckCallLive ==
    \E t \in Timeouts :
        /\ now + t <= MaxNow
        /\ CheckCallWith({t}, ReportingIntervals, MaxErrorCounts)

QueryStep == QueryThrow \/ \E r \in Responses : QueryReturn(r)

CheckCancelStep == CheckCancelReturn \/ CheckCancelThrow

NextLive ==
    \/ CreateCall
    \/ SignReturn
    \/ SignThrow
    \/ \E u \in StatusUrls : CreateReturn(u)
    \/ CreateThrow
    \/ CheckCallLive
    \/ SleepDoneSaturating
    \/ QueryStep
    \/ CheckCancelStep
    \/ Tick

Live ==
    /\ WF_vars(SleepDoneSaturating)
    /\ WF_vars(QueryStep)
    /\ WF_vars(CheckCancelStep)
    /\ WF_vars(Tick)

SpecLive == Init /\ [][NextLive]_vars /\ Live

\* ------------------------------------------------------------------ claims
\* A step in which the awaited getPagesDeploymentStatus settles.
QuerySettles == pc = "query" /\ pc' # "query"

\* A step in which getPagesDeploymentStatus returns a response (res').
QueryReturns == QuerySettles /\ outcome' # "Aborted"

\* C1: a 'succeed' response, whatever recoverable-error and unrecognized
\* responses came before it in the run, ends check() in that iteration with
\* the success outcome and status output 'succeed', the record no longer
\* pending, and no cancelPagesDeployment call made by check().
C1_SucceedEndsLoop ==
    res.data_status = "succeed" =>
        /\ pc = "done"
        /\ outcome = "Succeeded"
        /\ statusOutput = "succeed"
        /\ ~Pending
        /\ checkCancelCalls = 0

\* A created record, two counted errors and one clean response, then success.
C1_Witness ==
    /\ res.data_status = "succeed"
    /\ deploymentInfo # Null
    /\ ~Pending
    /\ queries = 4
    /\ errorCount = 2
    /\ maxErrorCount = 3
    /\ xpc = "idle"
    /\ cancelCalls = 0

\* C2: with maxErrorCount >= 1 the loop goes on only while errorCount is
\* below maxErrorCount, and it ends with ErrorBudgetExhausted in exactly the
\* iteration that counts the maxErrorCount-th error (so never after fewer
\* than maxErrorCount queries); in that step check() issues one
\* cancelPagesDeployment call iff the record is pending, and never a second.
C2_BudgetExhaustion ==
    [][ /\ (pc' \in {"sleep", "query"} /\ maxErrorCount' >= 1
               => errorCount' < maxErrorCount')
        /\ (QueryReturns /\ maxErrorCount >= 1 /\ ~IsTerminal(res'.data_status)
               /\ errorCount + 1 = maxErrorCount
               /\ (res'.status # HttpOk \/ res'.data_status \in
                      {"unknown_status", "not_found", "deployment_attempt_error"})
               => outcome' = "ErrorBudgetExhausted")
        /\ (QueryReturns /\ outcome' = "ErrorBudgetExhausted" /\ maxErrorCount >= 1
               => /\ errorCount' = maxErrorCount
                  /\ errorCount' = errorCount + 1
                  /\ queries' >= maxErrorCount
                  /\ checkCancelCalls' = (IF Pending THEN 1 ELSE 0)
                  /\ cancelCalls' = cancelCalls + (IF Pending THEN 1 ELSE 0)
                  /\ pc' = (IF Pending THEN "cancel" ELSE "done"))
        /\ (pc \in {"cancel", "done"} /\ pc' \in {"cancel", "done"}
               => checkCancelCalls' = checkCancelCalls)
      ]_vars

\* maxErrorCount = 3, three not_found responses with HTTP 503: the loop has
\* ended after exactly 3 queries and cancelled the pending record once.
C2_Witness ==
    /\ outcome = "ErrorBudgetExhausted"
    /\ maxErrorCount = 3
    /\ queries = 3
    /\ errorCount = 3
    /\ res = [status |-> 503, data_status |-> "not_found"]
    /\ checkCancelCalls = 1
    /\ cancelCalls = 1
    /\ pc = "done"

\* C3: when a response that is not terminal leaves the error budget
\* unexhausted and the elapsed time has reached the timeout, check() ends
\* with TimedOut, and in that step issues one cancelPagesDeployment call
\* iff the record is pending, and never a second.
C3_Timeout ==
    [][ /\ (QueryReturns /\ ~IsTerminal(res'.data_status)
               /\ errorCount' < maxErrorCount
               /\ now - startTime >= timeout
               => /\ outcome' = "TimedOut"
                  /\ "Timeout" \in failed'
                  /\ checkCancelCalls' = (IF Pending THEN 1 ELSE 0)
                  /\ cancelCalls' = cancelCalls + (IF Pending THEN 1 ELSE 0)
                  /\ pc' = (IF Pending THEN "cancel" ELSE "done"))
        /\ (outcome' = "TimedOut" /\ pc \in {"cancel", "done"}
               /\ pc' \in {"cancel", "done"}
               => checkCancelCalls' = checkCancelCalls)
      ]_vars

\* A run with timeout 2 that polled twice, timed out exactly when the
\* elapsed time reached 2, and cancelled the pending record once.
C3_Witness ==
    /\ outcome = "TimedOut"
    /\ timeout = 2
    /\ now - startTime = 2
    /\ queries = 2
    /\ checkCancelCalls = 1
    /\ pc = "done"
    /\ deploymentInfo # Null

\* C4: a deployment_failed or deployment_content_failed response, with any
\* HTTP status, ends the loop in its iteration: pending is cleared,
\* errorCount and the backoff delay keep their values, no query and no
\* cancelPagesDeployment call follows.
C4_PermanentFailure ==
    [][ /\ (QueryReturns /\ res'.data_status \in
                  {"deployment_failed", "deployment_content_failed"}
               => /\ pc' = "done"
                  /\ ~Pending'
                  /\ errorCount' = errorCount
                  /\ errorReportingInterval' = errorReportingInterval
                  /\ queries' = queries
                  /\ checkCancelCalls' = 0
                  /\ cancelCalls' = cancelCalls
                  /\ failed' # {})
        /\ (res.data_status \in {"deployment_failed", "deployment_content_failed"}
               /\ pc' = "done"
               => /\ queries' = queries
                  /\ checkCancelCalls' = 0
                  /\ errorCount' = errorCount)
      ]_vars

\* A permanent failure delivered with HTTP 503 after one counted error.
C4_Witness ==
    /\ pc = "done"
    /\ res = [status |-> 503, data_status |-> "deployment_content_failed"]
    /\ outcome = "ContentFailed"
    /\ errorCount = 1
    /\ errorReportingInterval = 1
    /\ maxErrorCount = 3
    /\ queries = 2
    /\ deploymentInfo # Null
    /\ ~Pending

\* C5 as stated: once pending is false it is never true again, whatever
\* create, check and cancel calls follow.
C5_PendingNeverAgainTrue ==
    [][ (deploymentInfo # Null /\ ~deploymentInfo[1].pending) => ~Pending' ]_vars

\* C5 as amended: check() and cancel() never set pending back to true; a
\* record with pending = false is followed by one with pending = true only
\* in the step in which a later create() call succeeds and replaces it.
C5_PendingTrueOnlyByCreate ==
    [][ (deploymentInfo # Null /\ ~deploymentInfo[1].pending /\ Pending')
           => (cpc = "create" /\ cpc' = "returned") ]_vars

\* pending was cleared by a terminal status while an external cancel() was
\* in flight, and that cancel() has completed too.
C5_Witness ==
    /\ deploymentInfo # Null
    /\ ~Pending
    /\ pc = "done"
    /\ outcome = "Succeeded"
    /\ xpc = "returned"

\* C6: a cancel() called when there is no record or pending is false makes
\* no cancelPagesDeployment call and changes neither the record nor any
\* state of check() or create(); every cancelPagesDeployment call, by
\* check() or from outside, is issued in a state where pending is true.
C6_CancelNoop ==
    [][ /\ (xpc # "noop" /\ xpc' = "noop"
               => /\ ~Pending
                  /\ cancelCalls' = cancelCalls
                  /\ deploymentInfo' = deploymentInfo
                  /\ checkVars' = checkVars
                  /\ createVars' = createVars)
        /\ (~Pending /\ xpc # "await" => xpc' # "await")
        /\ (~Pending /\ pc = "query" => pc' # "cancel")
        /\ (cancelCalls' > cancelCalls => Pending)
        /\ (checkCancelCalls' > checkCancelCalls => Pending)
      ]_vars

\* A cancel() that did nothing on a record whose deployment had succeeded.
C6_Witness ==
    /\ xpc = "noop"
    /\ deploymentInfo # Null
    /\ ~Pending
    /\ outcome = "Succeeded"
    /\ cancelCalls = 0

\* C7: a counted error takes the delay d to 2d+1 while d < 15000 (from 0:
\* 1, 3, 7, 15, 31, 63, ...), strictly more than d, and leaves a delay of
\* 15000 or more as it is; the delay is always below 30000 and, once it has
\* stopped growing, above 15000; an HTTP-200 response with a status that is
\* neither terminal nor a recoverable error makes the next sleep use delay 0.
C7_Backoff ==
    [][ /\ (QueryReturns /\ ~IsTerminal(res'.data_status)
               /\ (res'.status # HttpOk \/ res'.data_status \in
                      {"unknown_status", "not_found", "deployment_attempt_error"})
               => /\ (errorReportingInterval < 15000
                         => /\ errorReportingInterval' = 2 * errorReportingInterval + 1
                            /\ errorReportingInterval' > errorReportingInterval)
                  /\ (errorReportingInterval >= 15000
                         => /\ errorReportingInterval' = errorReportingInterval
                            /\ errorReportingInterval > 15000))
        /\ (QueryReturns /\ res'.status = HttpOk /\ res'.data_status \notin
                  {"succeed", "deployment_failed", "deployment_content_failed",
                   "unknown_status", "not_found", "deployment_attempt_error"}
               => /\ errorReportingInterval' = 0
                  /\ (pc' = "sleep" => sleepArg' = reportingInterval))
        /\ errorReportingInterval' < 30000
        /\ errorReportingInterval' \in
              {0, 1, 3, 7, 15, 31, 63, 127, 255, 511, 1023, 2047, 4095, 8191,
               16383}
      ]_vars

\* Sixteen errors in a row: the delay reached 16383 after the fourteenth
\* and two more errors left it there.
C7_Witness ==
    /\ errorReportingInterval = 16383
    /\ queries = 16
    /\ errorCount = 16
    /\ pc = "sleep"
    /\ sleepArg = 16383

\* C8: when getPagesDeploymentStatus throws, check() returns in that step
\* (it does not raise): the error is reported with setFailed, no query and
\* no cancelPagesDeployment call follows, and the record is left as it was.
C8_QueryThrowEndsCheck ==
    [][ /\ (QuerySettles /\ outcome' = "Aborted"
               => /\ pc' = "done"
                  /\ "QueryError" \in failed'
                  /\ deploymentInfo' = deploymentInfo
                  /\ checkCancelCalls' = 0
                  /\ cancelCalls' = cancelCalls
                  /\ queries' = queries)
        /\ (outcome = "Aborted" /\ pc' # "sleep" /\ pc' # "idle"
               => /\ pc' = "done"
                  /\ queries' = queries
                  /\ checkCancelCalls' = 0)
      ]_vars

\* The second query of a run threw: check() has returned, the created
\* record is still pending and no cancel call was ever made for it.
C8_Witness ==
    /\ pc = "done"
    /\ outcome = "Aborted"
    /\ "QueryError" \in failed
    /\ queries = 2
    /\ Pending
    /\ cancelCalls = 0

\* C9: when cancelPagesDeployment fails, cancel() reports the error with
\* setFailed, makes no further call, returns normally (check() keeps its
\* budget-exhausted or timed-out outcome and returns) and leaves the record
\* as it is; when the call succeeds, pending is false afterwards.
C9_CancelFailure ==
    [][ /\ (pc = "cancel" /\ pc' # "cancel"
               => /\ pc' = "done"
                  /\ outcome' = outcome
                  /\ outcome' \in {"ErrorBudgetExhausted", "TimedOut"}
                  /\ checkCancelCalls' = checkCancelCalls
                  /\ cancelCalls' = cancelCalls
                  /\ ("CancelError" \in failed' => deploymentInfo' = deploymentInfo)
                  /\ ("CancelError" \notin failed' => ~Pending'))
        /\ (xpc = "await" /\ xpc' # "await"
               => /\ xpc' \in {"returned", "reported"}
                  /\ cancelCalls' = cancelCalls
                  /\ (xpc' = "reported" => deploymentInfo' = deploymentInfo)
                  /\ (xpc' = "returned" => ~Pending'))
      ]_vars

\* check() timed out, its cancel call failed: the failure is reported next
\* to the timeout, check() has returned, the record is still pending and
\* exactly one call was made.
C9_Witness ==
    /\ pc = "done"
    /\ outcome = "TimedOut"
    /\ failed = {"Timeout", "CancelError"}
    /\ Pending
    /\ checkCancelCalls = 1
    /\ cancelCalls = 1

\* C10: when getSignedArtifactUrl or createPagesDeployment fails, create()
\* raises and leaves this.deploymentInfo as it was; one create() makes at
\* most one createPagesDeployment call; while no record exists no
\* cancelPagesDeployment call is ever made.
C10_CreateFailure ==
    [][ /\ (cpc \in {"sign", "create"} /\ cpc' \notin {"sign", "create"}
               => \/ cpc = "create" /\ cpc' = "returned" /\ Pending'
                  \/ cpc' = "raised" /\ deploymentInfo' = deploymentInfo)
        /\ (cpc' = "raised" /\ cpc # "raised"
               => /\ deploymentInfo' = deploymentInfo
                  /\ createCalls' = createCalls)
        /\ createCalls' <= 1
        /\ (cpc = "create" => cpc' # "sign" /\ createCalls' = createCalls)
        /\ (deploymentInfo' = Null => cancelCalls' = 0 /\ xpc' \in {"idle", "noop"})
      ]_vars

\* The first create() failed in createPagesDeployment after one call; no
\* record exists and a cancel() after it did nothing.
C10_Witness ==
    /\ cpc = "raised"
    /\ createCalls = 1
    /\ deploymentInfo = Null
    /\ xpc = "noop"
    /\ cancelCalls = 0

\* C11: the record a successful create() stores has pending = true, and its
\* id is the part of the response's status_url after its last '/' when that
\* part is not empty, and the build version when status_url is absent or
\* that part is empty.
C11_DerivedId ==
    [][ (cpc = "create" /\ cpc' = "returned") =>
          LET info == deploymentInfo'[1]
              url  == info.status_url
              tail(k) == SubSeq(url, k + 1, Len(url))
              IsLastSegment(k) ==
                  /\ \A i \in (k + 1)..Len(url) : url[i] # "/"
                  /\ (k = 0 \/ url[k] = "/")
          IN  /\ deploymentInfo' # Null
              /\ info.pending
              /\ IF url = NoUrl
                 THEN info.id = BuildVersion
                 ELSE \E k \in 0..Len(url) :
                         /\ IsLastSegment(k)
                         /\ info.id = (IF tail(k) = <<>> THEN BuildVersion
                                                        ELSE tail(k))
      ]_vars

\* A record created from status_url "u/d": its id is "d", not the build
\* version, and it is pending.
C11_Witness ==
    /\ cpc = "returned"
    /\ deploymentInfo # Null
    /\ deploymentInfo[1].status_url = <<"u", "/", "d">>
    /\ deploymentInfo[1].id = <<"d">>
    /\ deploymentInfo[1].pending

C13_BudgetBeforeTimeout ==
    [][ /\ (QueryReturns /\ ~IsTerminal(res'.data_status)
               /\ errorCount' >= maxErrorCount
               /\ now - startTime >= timeout
               => /\ outcome' = "ErrorBudgetExhausted"
                  /\ failed' = {"StatusCode"}
                  /\ checkCancelCalls' = (IF Pending THEN 1 ELSE 0)
                  /\ cancelCalls' = cancelCalls + (IF Pending THEN 1 ELSE 0))
        /\ (outcome' = "ErrorBudgetExhausted"
               => "Timeout" \notin failed' /\ checkCancelCalls' <= 1)
        /\ (outcome' = "TimedOut"
               => "StatusCode" \notin failed' /\ checkCancelCalls' <= 1)
      ]_vars

\* The third error arrived when the elapsed time had reached the timeout of
\* 2: the run ended with ErrorBudgetExhausted and one cancel call.
C13_Witness ==
    /\ pc = "done"
    /\ outcome = "ErrorBudgetExhausted"
    /\ maxErrorCount = 3
    /\ errorCount = 3
    /\ timeout = 2
    /\ now - startTime = 2
    /\ checkCancelCalls = 1
    /\ "Timeout" \notin failed

\* C14: a status query is issued only when a sleep completes, one query per
\* sleep; every sleep of a run, the one before the first query included, is
\* started with the delay reportingInterval + errorReportingInterval (the
\* backoff being 0 at the start of a run) and still has that delay when it
\* completes.
C14_SleepBeforeQuery ==
    [][ /\ (queries' > queries
               => /\ pc = "sleep"
                  /\ pc' = "query"
                  /\ queries' = queries + 1
                  /\ sleepArg = reportingInterval + errorReportingInterval)
        /\ (pc' = "query" /\ pc # "query" => pc = "sleep" /\ queries' = queries + 1)
        /\ (pc' = "sleep" /\ pc # "sleep"
               => sleepArg' = reportingInterval' + errorReportingInterval')
        /\ (pc' = "sleep" /\ pc \in {"idle", "done"}
               => /\ errorReportingInterval' = 0
                  /\ sleepArg' = reportingInterval'
                  /\ queries' = 0)
        /\ (pc = "sleep" /\ pc' = "sleep" => sleepArg' = sleepArg)
      ]_vars

\* The third query of a run is in flight; the sleep before it lasted the
\* reporting interval 5 plus the backoff 3 of two errors.
C14_Witness ==
    /\ pc = "query"
    /\ queries = 3
    /\ reportingInterval = 5
    /\ errorReportingInterval = 3
    /\ sleepArg = 8

\* C15: a run gets the outcome TimedOut or ErrorBudgetExhausted only in a
\* step in which a status query returns a response that is not terminal, so
\* never before its first query has completed and never while it sleeps or
\* a query is in flight, whatever the timeout and the elapsed time are.
C15_TestsAfterQuery ==
    [][ /\ (outcome' \in {"TimedOut", "ErrorBudgetExhausted"} /\ outcome' # outcome
               => /\ pc = "query"
                  /\ queries >= 1
                  /\ res' \in Responses
                  /\ ~IsTerminal(res'.data_status))
        /\ (pc = "sleep" => outcome' = "none" /\ pc' \in {"sleep", "query"})
        /\ (pc = "query" /\ pc' = "query" => outcome' = "none")
      ]_vars

\* timeout 0 and error budget 0: both limits were reached when the run
\* started, and the run is awaiting its first query with no outcome yet.
C15_Witness ==
    /\ pc = "query"
    /\ queries = 1
    /\ timeout = 0
    /\ maxErrorCount = 0
    /\ now - startTime >= 1
    /\ outcome = "none"
    /\ failed = {}

\* C16 as stated: when check() has returned, a created record is pending
\* if and only if the loop was aborted by a thrown query or the remote
\* cancel call of check() failed.
C16_PendingIffAbortedOrCancelFailed ==
    (pc = "done" /\ deploymentInfo # Null)
        => (Pending <=> (outcome = "Aborted" \/ "CancelError" \in failed))

\* C16 as amended: pending is cleared only by a step that observes a
\* terminal status or in which a cancelPagesDeployment call (of check() or
\* of another cancel()) succeeds; so when check() has returned with the
\* record pending, the loop was aborted by a thrown query or the cancel
\* call of check() failed.  (The converse needs the record to have been
\* pending and no other cancel() to have succeeded.)
C16_PendingUntilTerminalOrCancelled ==
    [][ /\ (pc' = "done" /\ Pending'
               => outcome' = "Aborted" \/ "CancelError" \in failed')
        /\ (Pending /\ ~Pending'
               => \/ /\ QueryReturns
                     /\ IsTerminal(res'.data_status)
                  \/ /\ pc = "cancel"
                     /\ pc' = "done"
                     /\ "CancelError" \notin failed'
                  \/ /\ xpc = "await"
                     /\ xpc' = "returned")
        /\ (QuerySettles /\ outcome' = "Aborted" /\ Pending => Pending')
        /\ (pc = "cancel" /\ "CancelError" \in failed' /\ Pending => Pending')
      ]_vars

\* The error budget ran out, the cancel call of check() failed and no other
\* cancel() was made: check() has returned and the record is still pending.
C16_Witness ==
    /\ pc = "done"
    /\ outcome = "ErrorBudgetExhausted"
    /\ failed = {"StatusCode", "CancelError"}
    /\ Pending
    /\ xpc = "idle"
    /\ cancelCalls = 1


\* C17: check() returns ErrorBudgetExhausted only in an iteration whose
\* response was counted as an error (HTTP status other than 200, or a
\* recoverable-error status), whatever the non-negative maxErrorCount is; a
\* run whose responses were all clean (errorCount still 0) never ends with
\* ErrorBudgetExhausted.
C17_ExhaustedOnlyOnCountedError ==
    [][ QueryReturns /\ outcome' = "ErrorBudgetExhausted"
            => /\ IsError(res')
               /\ errorCount' > 0
      ]_vars

\* C18: when every timer and every remote call of check() settles and the
\* wall clock advances to startTime + timeout, a check() that has started
\* polling eventually returns, with a terminal status, budget exhaustion, a
\* timeout or a reported transport failure, whatever responses the service
\* supplies; it never polls forever.
C18_CheckReturns ==
    (pc = "sleep") ~> (pc = "done" /\ outcome # "none")

\* Clean polling, more polls than the counter tracks, ended by the timeout.
C18_Witness ==
    /\ pc = "done"
    /\ outcome = "TimedOut"
    /\ timeout > 0
    /\ maxErrorCount > 0
    /\ errorCount = 0
    /\ queries = MaxQueries
    /\ failed = {"Timeout"}

\* C19: within one check() run the status output 'succeed' and a setFailed
\* report of check() exclude each other: once 'succeed' is emitted the run
\* has ended as Succeeded with no failure reported, and once check() has
\* reported a failure (permanent failure, budget exhaustion, timeout,
\* transport failure, cancel failure) the run is returning and its status
\* output is not 'succeed'.
C19_SuccessExcludesFailure ==
    /\ statusOutput = "succeed"
          => /\ failed = {}
             /\ pc = "done"
             /\ outcome = "Succeeded"
    /\ failed # {}
          => /\ statusOutput # "succeed"
             /\ pc \in {"cancel", "done"}
             /\ outcome # "Succeeded"

\* Success after a counted error earlier in the same run.
C19_Witness ==
    /\ pc = "done"
    /\ statusOutput = "succeed"
    /\ outcome = "Succeeded"
    /\ res.data_status = "succeed"
    /\ errorCount > 0
    /\ queries > 1
    /\ failed = {}

\* C20: whatever the interleaving of cancel() invocations at their
\* suspension points (a cancel() of the caller while check() sleeps or
\* awaits, and the cancel() of check() on timeout or budget exhaustion), at
\* most one remote cancel call is issued for one deployment record.
C20_AtMostOneCancelCall ==
    cancelCalls <= 1

\* Two cancel calls for one record in flight at once: the caller's cancel()
\* is still awaiting when check() times out and calls cancel() itself.
C20_OverlappingCancelCalls ==
    /\ Pending
    /\ xpc = "await"
    /\ pc = "cancel"
    /\ outcome = "TimedOut"
    /\ checkCancelCalls = 1
    /\ cancelCalls = 2

====
